---- MODULE Spec2Model ----
(***************************************************************************)
(* A model of the news aggregator's core: the user state store             *)
(* (src/utils/user_profile.py), the recommender (src/utils/recommender.py) *)
(* and the two places of the UI that drive them (src/app.py).              *)
(*                                                                         *)
(* Python values are modelled as follows.  A str is a sequence of          *)
(* one-character strings, so that lower() and the substring test `in` are  *)
(* computed.  A dict is a function (a record) whose DOMAIN is its key set, *)
(* so that d.get(k, default) is computed from the presence of k.  A list   *)
(* is a sequence, a set is a set.  datetime.now() is the integer clock     *)
(* `now`, counted in hours.                                                *)
(***************************************************************************)
EXTENDS Integers, Sequences, FiniteSets, TLC

VARIABLES
    preferences,      \* UserProfile.preferences
    viewed_articles,  \* UserProfile.viewed_articles
    reading_history,  \* UserProfile.reading_history
    followed_topics,  \* UserProfile.followed_topics
    muted_topics,     \* UserProfile.muted_topics
    disk,             \* the file user_data/user_profile.json
    session_viewed,   \* st.session_state.viewed_articles (app.py)
    article_vectors,  \* NewsRecommender.article_vectors
    article_ids,      \* NewsRecommender.article_ids
    last_trained,     \* NewsRecommender.last_trained
    now,              \* datetime.now(), in hours
    calls,            \* history variable: every id passed to track_article_view
    last              \* history variable: the last call, its argument and result

userVars == <<preferences, viewed_articles, reading_history, followed_topics, muted_topics>>
recVars == <<article_vectors, article_ids, last_trained>>
vars == <<preferences, viewed_articles, reading_history, followed_topics, muted_topics,
          disk, session_viewed, article_vectors, article_ids, last_trained, now,
          calls, last>>

(***************************************************************************)
(* Bounds of the model.                                                    *)
(***************************************************************************)
\* The history cap.  The source keeps the last 1000 entries; the code reads
\* the cap only in `len(h) > cap` and `h[-cap:]`, and the model runs it with
\* a small cap so that more than cap views happen.
HistoryCap == 3
\* The clock runs 0..MaxClock hours.
MaxClock == 2
\* n_recommendations and the n of get_recently_viewed range over 0..MaxN.
MaxN == 3
\* Longest article list handed to the popularity ranker on its own.
MaxList == 3

\* timedelta(hours=1): the age past which the feature space is rebuilt.
RetrainAfterHours == 1
\* The number of recently viewed articles that seed the similarity ranking.
RecentSeeds == 5
\* The default of n_recommendations.
DefaultN == 10

\* None, for a field that otherwise holds a non-empty list or, as <<x>>, a value.
None == <<>>

(***************************************************************************)
(* Python built-ins                                                        *)
(***************************************************************************)
Range(s) == {s[i] : i \in 1..Len(s)}

Min(a, b) == IF a < b THEN a ELSE b
Max(a, b) == IF a > b THEN a ELSE b

\* The index a slice bound k denotes in a list of length n.
SliceIndex(k, n) == IF k < 0 THEN Max(n + k, 0) ELSE Min(k, n)

\* s[k:]
PySliceFrom(s, k) == SubSeq(s, SliceIndex(k, Len(s)) + 1, Len(s))

\* s[:k]
PySliceTo(s, k) == SubSeq(s, 1, SliceIndex(k, Len(s)))

\* reversed(s)
Reversed(s) == [i \in 1..Len(s) |-> s[Len(s) + 1 - i]]

\* d.get(k, default)
dict_get(d, k, default) == IF k \in DOMAIN d THEN d[k] ELSE default

\* list(S): the elements of a set in an order the language does not fix; the
\* program reads such a list back only through set().
RECURSIVE list(_)
list(S) ==
    IF S = {} THEN <<>>
    ELSE LET x == CHOOSE y \in S : TRUE IN <<x>> \o list(S \ {x})

(***************************************************************************)
(* Strings                                                                 *)
(***************************************************************************)
UpperCase == <<"A","B","C","D","E","F","G","H","I","J","K","L","M",
               "N","O","P","Q","R","S","T","U","V","W","X","Y","Z">>
LowerCase == <<"a","b","c","d","e","f","g","h","i","j","k","l","m",
               "n","o","p","q","r","s","t","u","v","w","x","y","z">>

lower_char(c) ==
    IF \E i \in 1..Len(UpperCase) : UpperCase[i] = c
    THEN LowerCase[CHOOSE i \in 1..Len(UpperCase) : UpperCase[i] = c]
    ELSE c

\* s.lower()
lower(s) == [i \in 1..Len(s) |-> lower_char(s[i])]

\* needle in hay, for strings
str_in(needle, hay) ==
    \E i \in 0..(Len(hay) - Len(needle)) :
        \A j \in 1..Len(needle) : hay[i + j] = needle[j]

\* ' '.join(parts)
RECURSIVE join(_)
join(parts) ==
    IF parts = <<>> THEN <<>>
    ELSE IF Len(parts) = 1 THEN parts[1]
    ELSE parts[1] \o <<" ">> \o join(Tail(parts))

(***************************************************************************)
(* The articles of the model                                               *)
(***************************************************************************)
AI == <<"A","I">>
ML == <<"M","L">>
BBC == <<"B","B","C">>
CNN == <<"C","N","N">>

\* Article 1 carries the tags AI and ML and takes 12 minutes to read.  Article
\* 2 shares most of its words with article 1 but has no "ai" in its title or
\* tags.  Article 3 has "ai" inside "Rain" and no word in common with article
\* 1.  Article 4 has no tags, no views, no reading time and a title of stop
\* words only.
Article1 == [id |-> 1, title |-> <<"A","I"," ","c","h","i","p","s">>,
             tags |-> <<AI, ML>>, source |-> BBC,
             views |-> 5, published_at |-> 2, reading_time |-> 12]
Article2 == [id |-> 2, title |-> <<"M","L"," ","c","h","i","p","s">>,
             tags |-> <<ML>>, source |-> BBC,
             views |-> 5, published_at |-> 2, reading_time |-> 4]
Article3 == [id |-> 3, title |-> <<"R","a","i","n"," ","m","a","p">>,
             tags |-> <<<<"s","k","y">>>>, source |-> CNN,
             views |-> 9, published_at |-> 1, reading_time |-> 6]
Article4 == [id |-> 4, title |-> <<"T","h","e"," ","o","f">>,
             source |-> CNN, published_at |-> 3]

Corpus == {Article1, Article2, Article3}

Topics == {AI, ML}

\* The ids track_article_view is called with: one more than the cap holds.
ArticleIds == 1..(HistoryCap + 1)

(***************************************************************************)
(* UserProfile                                                             *)
(***************************************************************************)
DefaultPreferences ==
    [interests |-> <<>>, sources |-> <<>>,
     min_reading_time |-> 1, max_reading_time |-> 10]

\* json.dump of the five fields: every field value carries its JSON type.
json_dump(p, va, rh, ft, mt) ==
    [t |-> "object",
     v |-> [preferences |-> [t |-> "object", v |-> p],
            viewed_articles |-> [t |-> "array", v |-> list(va)],
            reading_history |-> [t |-> "array", v |-> rh],
            followed_topics |-> [t |-> "array", v |-> list(ft)],
            muted_topics |-> [t |-> "array", v |-> list(mt)]]]

\* The UserProfile object and its file, as one value: the methods below map
\* the object before the call to the object after it.
Self ==
    [preferences |-> preferences, viewed_articles |-> viewed_articles,
     reading_history |-> reading_history, followed_topics |-> followed_topics,
     muted_topics |-> muted_topics, disk |-> disk]

\* The state after a call that leaves the object `self`.
Becomes(self) ==
    /\ preferences' = self.preferences
    /\ viewed_articles' = self.viewed_articles
    /\ reading_history' = self.reading_history
    /\ followed_topics' = self.followed_topics
    /\ muted_topics' = self.muted_topics
    /\ disk' = self.disk

\* save_user_data()
save_user_data(self) ==
    [self EXCEPT !.disk =
        [kind |-> "json",
         data |-> json_dump(self.preferences, self.viewed_articles,
                            self.reading_history, self.followed_topics,
                            self.muted_topics)]]

\* update_preferences(new_prefs)
update_preferences(self, new_prefs) ==
    save_user_data(
        [self EXCEPT !.preferences =
            [k \in DOMAIN self.preferences |->
                IF k \in DOMAIN new_prefs THEN new_prefs[k] ELSE self.preferences[k]]])

\* The mutant keeps the oldest entries.
truncate_history_keeps_first(h) ==
    IF Len(h) > HistoryCap THEN PySliceTo(h, HistoryCap) ELSE h

\* Keep only the last HistoryCap history items.
truncate_history(h) ==
    IF Len(h) > HistoryCap THEN PySliceFrom(h, -HistoryCap) ELSE h

\* The body of track_article_view under its guard.
append_view(self, article_id) ==
    save_user_data(
        [self EXCEPT
            !.viewed_articles = self.viewed_articles \cup {article_id},
            !.reading_history =
                truncate_history(Append(self.reading_history,
                                        [article_id |-> article_id, timestamp |-> now]))])

\* The mutant records every call, viewed before or not.
track_article_view_unguarded(self, article_id) ==
    append_view(self, article_id)

\* track_article_view(article_id)
track_article_view(self, article_id) ==
    IF article_id \notin self.viewed_articles
    THEN append_view(self, article_id)
    ELSE self

\* The mutant forgets to unmute.
follow_topic_keeps_muted(self, topic) ==
    save_user_data([self EXCEPT !.followed_topics = self.followed_topics \cup {topic}])

\* follow_topic(topic)
follow_topic(self, topic) ==
    save_user_data(
        [self EXCEPT
            !.followed_topics = self.followed_topics \cup {topic},
            !.muted_topics = IF topic \in self.muted_topics
                             THEN self.muted_topics \ {topic}
                             ELSE self.muted_topics])

\* unfollow_topic(topic)
unfollow_topic(self, topic) ==
    save_user_data(
        [self EXCEPT
            !.followed_topics = IF topic \in self.followed_topics
                                THEN self.followed_topics \ {topic}
                                ELSE self.followed_topics])

\* mute_topic(topic)
mute_topic(self, topic) ==
    save_user_data(
        [self EXCEPT
            !.muted_topics = self.muted_topics \cup {topic},
            !.followed_topics = IF topic \in self.followed_topics
                                THEN self.followed_topics \ {topic}
                                ELSE self.followed_topics])

\* get_recently_viewed(n), on the history h
get_recently_viewed(h, n) ==
    LET items == Reversed(PySliceFrom(h, -n))
    IN  [i \in 1..Len(items) |-> items[i].article_id]

\* set(x) on a parsed JSON value raises TypeError unless x is iterable.
set_raises(j) == j.t # "array"

\* load_user_data(): the object after the load, and whether the try block
\* caught an exception.  The assignments run in order inside one try block;
\* the first one that raises ends the load and leaves the later fields as
\* they were.
load_user_data(self) ==
    IF self.disk.kind = "missing" THEN [self |-> self, raised |-> FALSE]
    ELSE IF self.disk.kind = "garbled" THEN [self |-> self, raised |-> TRUE]
    ELSE IF self.disk.data.t # "object" THEN [self |-> self, raised |-> TRUE]
    ELSE
    LET data == self.disk.data.v
        va == dict_get(data, "viewed_articles", [t |-> "array", v |-> <<>>])
        rh == dict_get(data, "reading_history", [t |-> "array", v |-> <<>>])
        ft == dict_get(data, "followed_topics", [t |-> "array", v |-> <<>>])
        mt == dict_get(data, "muted_topics", [t |-> "array", v |-> <<>>])
        s1 == [self EXCEPT !.preferences =
                  IF "preferences" \in DOMAIN data THEN data.preferences.v
                  ELSE self.preferences]
        s2 == [s1 EXCEPT !.viewed_articles = Range(va.v)]
        s3 == [s2 EXCEPT !.reading_history = rh.v]
        s4 == [s3 EXCEPT !.followed_topics = Range(ft.v)]
        s5 == [s4 EXCEPT !.muted_topics = Range(mt.v)]
    IN  IF set_raises(va) THEN [self |-> s1, raised |-> TRUE]
        ELSE IF set_raises(ft) THEN [self |-> s3, raised |-> TRUE]
        ELSE IF set_raises(mt) THEN [self |-> s4, raised |-> TRUE]
        ELSE [self |-> s5, raised |-> FALSE]

\* UserProfile(): the defaults, then load_user_data(), for the file d.
UserProfile_init(d) ==
    load_user_data([preferences |-> DefaultPreferences, viewed_articles |-> {},
                    reading_history |-> <<>>, followed_topics |-> {},
                    muted_topics |-> {}, disk |-> d])

(***************************************************************************)
(* NewsRecommender.update_user_preferences                                 *)
(***************************************************************************)
\* The mutant follows the first tag even when it is muted.
update_user_preferences_ignores_mute(article, user_profile) ==
    IF "tags" \in DOMAIN article /\ Len(article.tags) > 0
    THEN IF article.tags[1] \notin user_profile.followed_topics
         THEN follow_topic(user_profile, article.tags[1])
         ELSE user_profile
    ELSE user_profile

\* update_user_preferences(article, user_profile)
update_user_preferences(article, user_profile) ==
    IF "tags" \in DOMAIN article /\ Len(article.tags) > 0
    THEN LET new_topic == article.tags[1]
         IN  IF /\ new_topic \notin user_profile.followed_topics
                /\ new_topic \notin user_profile.muted_topics
             THEN follow_topic(user_profile, new_topic)
             ELSE user_profile
    ELSE user_profile

(***************************************************************************)
(* NewsRecommender: features and the feature space                         *)
(***************************************************************************)
EmptyStr == <<>>

\* _get_article_features(article)
_get_article_features(article) ==
    join(<<dict_get(article, "title", EmptyStr),
           dict_get(article, "summary", EmptyStr),
           dict_get(article, "category", EmptyStr),
           join(dict_get(article, "tags", <<>>))>>)

\* The words of a text: the maximal runs of characters other than the space.
RECURSIVE words(_, _)
words(text, word) ==
    IF text = <<>> THEN (IF word = <<>> THEN {} ELSE {word})
    ELSE IF Head(text) = " "
         THEN (IF word = <<>> THEN {} ELSE {word}) \cup words(Tail(text), <<>>)
         ELSE words(Tail(text), Append(word, Head(text)))

\* Stop words of the vectorizer's English list that the model's texts use.
StopWords == {<<"t","h","e">>, <<"o","f">>, <<"a","n","d">>, <<"i","s">>}

\* TfidfVectorizer(stop_words='english') on one text: lower-cased words of two
\* characters or more that are no stop words.  The model keeps the terms of a
\* vector and not their weights.
vectorize(text) ==
    {w \in words(lower(text), <<>>) : Len(w) >= 2 /\ w \notin StopWords}

\* The vector of every article of the model, computed once.
VectorOf == [a \in Corpus \cup {Article4} |-> vectorize(_get_article_features(a))]

\* vectorizer.fit_transform(texts), given per article: one row per article, or
\* None when it raises ValueError because no text has a term.
fit_transform(articles) ==
    IF \A i \in 1..Len(articles) : VectorOf[articles[i]] = {} THEN None
    ELSE [i \in 1..Len(articles) |-> VectorOf[articles[i]]]

\* Hundredths in which a cosine is counted.
CosineScale == 100

\* cosine_similarity of two rows: the cosine of the term vectors, rounded down
\* to hundredths; 0 when a row has no term.
cosine_similarity(u, v) ==
    IF u = {} \/ v = {} THEN 0
    ELSE LET dot == Cardinality(u \cap v)
             norm2 == Cardinality(u) * Cardinality(v)
         IN  CHOOSE c \in 0..CosineScale :
                 /\ c * c * norm2 <= CosineScale * CosineScale * dot * dot
                 /\ (c + 1) * (c + 1) * norm2 > CosineScale * CosineScale * dot * dot

\* The cosines of the vectors of the model's articles, computed once.
CosineOf ==
    [u \in {VectorOf[a] : a \in DOMAIN VectorOf}, v \in {VectorOf[a] : a \in DOMAIN VectorOf} |-> cosine_similarity(u, v)]

\* One entry of cosine_similarity(recent_vectors, candidate_vectors).
similarity(u, v) ==
    IF <<u, v>> \in DOMAIN CosineOf THEN CosineOf[u, v] ELSE cosine_similarity(u, v)

\* The recommender object: the three fields train() sets.
Recommender ==
    [article_vectors |-> article_vectors, article_ids |-> article_ids,
     last_trained |-> last_trained]

\* train(articles)
train(rec, articles) ==
    IF articles = <<>> THEN rec
    ELSE LET ids == [i \in 1..Len(articles) |-> articles[i].id]
             matrix == fit_transform(articles)
         IN  IF matrix = None
             THEN [rec EXCEPT !.article_ids = ids]
             ELSE [article_vectors |-> matrix, article_ids |-> ids,
                   last_trained |-> <<now>>]

(***************************************************************************)
(* NewsRecommender: the preference filter and the popularity ranking       *)
(***************************************************************************)
\* topic.lower() in title.lower() or topic.lower() in ' '.join(tags).lower()
topic_matches(topic, a) ==
    \/ str_in(lower(topic), lower(dict_get(a, "title", EmptyStr)))
    \/ str_in(lower(topic), lower(join(dict_get(a, "tags", <<>>))))

\* The topics the model's users follow or mute: the chosen ones and the first
\* tags that are followed automatically.
KnownTopics ==
    Topics \cup {a.tags[1] : a \in {b \in Corpus : "tags" \in DOMAIN b /\ b.tags # <<>>}}

\* topic_matches for the model's topics and articles, computed once.
TopicMatchOf ==
    [topic \in KnownTopics, a \in Corpus \cup {Article4} |-> topic_matches(topic, a)]

about_topic(topic, a) ==
    IF <<topic, a>> \in DOMAIN TopicMatchOf THEN TopicMatchOf[topic, a]
    ELSE topic_matches(topic, a)

\* Reading-time defaults of the filter.
DefaultMinTime == 1
DefaultMaxTime == 60
DefaultReadingTime == 5

\* The list `filtered` of _filter_by_preferences after its four steps: the
\* followed topics, the muted topics, the preferred sources, the reading time.
\* Each step builds a new list from the one before; neither `articles` nor
\* user_profile is assigned to.
filtered(articles, user_profile) ==
    LET followed(a) == \E topic \in user_profile.followed_topics : about_topic(topic, a)
        not_muted(a) == ~\E topic \in user_profile.muted_topics : about_topic(topic, a)
        sources == dict_get(user_profile.preferences, "sources", <<>>)
        preferred_sources == {lower(sources[i]) : i \in 1..Len(sources)}
        from_source(a) == lower(dict_get(a, "source", EmptyStr)) \in preferred_sources
        min_time == dict_get(user_profile.preferences, "min_reading_time", DefaultMinTime)
        max_time == dict_get(user_profile.preferences, "max_reading_time", DefaultMaxTime)
        in_time(a) ==
            /\ min_time <= dict_get(a, "reading_time", DefaultReadingTime)
            /\ dict_get(a, "reading_time", DefaultReadingTime) <= max_time
        f1 == IF user_profile.followed_topics # {} THEN SelectSeq(articles, followed)
              ELSE articles
        f2 == IF user_profile.muted_topics # {} THEN SelectSeq(f1, not_muted) ELSE f1
        f3 == IF sources # <<>> THEN SelectSeq(f2, from_source) ELSE f2
    IN  SelectSeq(f3, in_time)

\* The mutant returns the surviving articles last first.
_filter_by_preferences_reversed(articles, user_profile) ==
    Reversed(filtered(articles, user_profile))

\* _filter_by_preferences(articles, user_profile)
_filter_by_preferences(articles, user_profile) ==
    IF articles = <<>> THEN <<>> ELSE filtered(articles, user_profile)

\* The sort key (x.get('views', 0), x.get('published_at', '')).  published_at
\* is counted in days from 1; the empty string, which sorts before every
\* date, is 0.
popularity_key(x) == <<dict_get(x, "views", 0), dict_get(x, "published_at", 0)>>

\* Tuple comparison k1 < k2.
key_less(k1, k2) == k1[1] < k2[1] \/ (k1[1] = k2[1] /\ k1[2] < k2[2])

\* A stable ascending sort by popularity_key: every element goes in after the
\* elements that are not greater.
RECURSIVE stable_sort(_)
stable_sort(s) ==
    IF s = <<>> THEN <<>>
    ELSE LET r == stable_sort(SubSeq(s, 1, Len(s) - 1))
             x == s[Len(s)]
             k == Cardinality({i \in 1..Len(r) :
                                  ~key_less(popularity_key(x), popularity_key(r[i]))})
         IN  SubSeq(r, 1, k) \o <<x>> \o SubSeq(r, k + 1, Len(r))

\* The mutant sorts ascending and reverses: equal keys come out in reverse.
sorted_reverse_unstable(s) == Reversed(stable_sort(s))

\* sorted(articles, key=..., reverse=True): the list is reversed, sorted
\* stably and reversed again, so equal keys keep their order.
sorted_reverse(s) == Reversed(stable_sort(Reversed(s)))

\* _get_popular_articles(articles, n)
_get_popular_articles(articles, n) ==
    IF articles = <<>> THEN <<>>
    ELSE LET sorted_articles == sorted_reverse(articles)
         IN  PySliceTo(sorted_articles, Min(n, Len(sorted_articles)))

(***************************************************************************)
(* NewsRecommender.get_recommendations                                     *)
(***************************************************************************)
\* The mutant backfills from all the articles, viewed ones included.
select_candidates_backfills_all(articles, user_profile, n_recommendations) ==
    LET is_unviewed(a) == a.id \notin user_profile.viewed_articles
        unviewed == SelectSeq(articles, is_unviewed)
        unviewed_articles == IF unviewed = <<>> THEN articles ELSE unviewed
        filtered_articles == _filter_by_preferences(unviewed_articles, user_profile)
        not_filtered(a) == a \notin Range(filtered_articles)
    IN  IF filtered_articles = <<>> THEN unviewed_articles
        ELSE IF Len(filtered_articles) >= n_recommendations THEN filtered_articles
        ELSE filtered_articles \o SelectSeq(articles, not_filtered)

\* The candidates of get_recommendations: the unviewed articles (all of them
\* when every article is viewed), narrowed by the preference filter and
\* backfilled when the filter leaves fewer than n.
select_candidates(articles, user_profile, n_recommendations) ==
    LET is_unviewed(a) == a.id \notin user_profile.viewed_articles
        unviewed == SelectSeq(articles, is_unviewed)
        unviewed_articles == IF unviewed = <<>> THEN articles ELSE unviewed
        filtered_articles == _filter_by_preferences(unviewed_articles, user_profile)
        not_filtered(a) == a \notin Range(filtered_articles)
    IN  IF filtered_articles = <<>> THEN unviewed_articles
        ELSE IF Len(filtered_articles) >= n_recommendations THEN filtered_articles
        ELSE filtered_articles \o SelectSeq(unviewed_articles, not_filtered)

\* [i for i, a in enumerate(articles) if P(a)], counted from 1
RECURSIVE indices_where(_, _)
indices_where(flags, i) ==
    IF i > Len(flags) THEN <<>>
    ELSE IF flags[i] THEN <<i>> \o indices_where(flags, i + 1)
    ELSE indices_where(flags, i + 1)

RECURSIVE sum_seq(_)
sum_seq(s) == IF s = <<>> THEN 0 ELSE Head(s) + sum_seq(Tail(s))

\* similarity_matrix.mean(axis=0): for each candidate row the mean, over the
\* seed rows, of the cosine; a mean is the fraction num/den.
avg_similarities(recent_vectors, candidate_vectors) ==
    [j \in 1..Len(candidate_vectors) |->
        [num |-> sum_seq([i \in 1..Len(recent_vectors) |->
                            similarity(recent_vectors[i], candidate_vectors[j])]),
         den |-> Len(recent_vectors)]]

mean_less(a, b) == a.num * b.den < b.num * a.den

\* np.argsort(values): the index orders that put the values in ascending
\* order.  The default sort is not stable, so every order of equal values is a
\* possible result.
argsort(values) ==
    {p \in [1..Len(values) -> 1..Len(values)] :
        /\ \A i, j \in 1..Len(values) : i # j => p[i] # p[j]
        /\ \A i \in 1..(Len(values) - 1) : ~mean_less(values[p[i + 1]], values[p[i]])}

\* The mutant returns every candidate, whatever n is.
top_n_unbounded(sorted_indices, n_recommendations) == sorted_indices

\* sorted_indices[:min(n_recommendations, len(sorted_indices))]
top_n(sorted_indices, n_recommendations) ==
    PySliceTo(sorted_indices, Min(n_recommendations, Len(sorted_indices)))

\* The feature space is rebuilt when absent or older than an hour.
needs_training(rec) ==
    \/ rec.article_vectors = None
    \/ rec.last_trained = None
    \/ now - rec.last_trained[1] > RetrainAfterHours

\* get_recommendations(articles, user_profile, n_recommendations): the
\* possible outcomes, each the recommender after the call, the path that
\* returned and the list returned; for the content-based path also the
\* candidates, their avg_similarities and the top_indices read from them.
get_recommendations(articles, user_profile, n_recommendations, rec) ==
    IF articles = <<>>
    THEN {[rec |-> rec, path |-> "empty", out |-> <<>>, candidates |-> <<>>,
           avg_similarities |-> <<>>, top_indices |-> <<>>]}
    ELSE
    LET candidates == select_candidates(articles, user_profile, n_recommendations)
        history == user_profile.reading_history
        recent_article_ids ==
            get_recently_viewed(history, Min(RecentSeeds, Len(history)))
        is_recent == [i \in 1..Len(articles) |->
                         articles[i].id \in Range(recent_article_ids)]
        is_candidate == [i \in 1..Len(articles) |-> articles[i] \in Range(candidates)]
        recent_indices == indices_where(is_recent, 1)
        candidate_indices == indices_where(is_candidate, 1)
        trained == IF needs_training(rec) THEN train(rec, articles) ELSE rec
        rows == Len(trained.article_vectors)
        recent_vectors ==
            [k \in 1..Len(recent_indices) |-> trained.article_vectors[recent_indices[k]]]
        candidate_vectors ==
            [k \in 1..Len(candidate_indices) |->
                trained.article_vectors[candidate_indices[k]]]
        popular(r) ==
            {[rec |-> r, path |-> "popular",
              out |-> _get_popular_articles(candidates, n_recommendations),
              candidates |-> candidates, avg_similarities |-> <<>>,
              top_indices |-> <<>>]}
    IN  IF ~(history # <<>> /\ Len(candidates) > 1) THEN popular(rec)
        \* no seed article is among the articles
        ELSE IF recent_indices = <<>> THEN popular(rec)
        \* training failed and there is no older feature space
        ELSE IF trained.article_vectors = None THEN popular(trained)
        \* IndexError: the feature space has fewer rows than an index read
        ELSE IF \E i \in Range(recent_indices) \cup Range(candidate_indices) : i > rows
             THEN popular(trained)
        ELSE {LET top_indices == top_n(Reversed(sorted), n_recommendations)
              IN  [rec |-> trained, path |-> "content",
                   out |-> [k \in 1..Len(top_indices) |-> candidates[top_indices[k]]],
                   candidates |-> candidates,
                   avg_similarities |->
                       avg_similarities(recent_vectors, candidate_vectors),
                   top_indices |-> top_indices] :
                 sorted \in argsort(avg_similarities(recent_vectors, candidate_vectors))}

(***************************************************************************)
(* Actions on the user state                                               *)
(***************************************************************************)
\* `last` names the call a step made: op, its argument, rep (the call before
\* it was the same call with the same argument) and res, which is the value a
\* query returned or, for a mutator, what the call found before it acted.
Call(op, arg, res) ==
    [op |-> op, arg |-> arg, res |-> res,
     rep |-> (last.op = op /\ last.arg = arg)]

FollowTopic(topic) ==
    /\ Becomes(follow_topic(Self, topic))
    /\ last' = Call("follow_topic", topic, topic \in muted_topics)
    /\ UNCHANGED <<session_viewed, recVars, now, calls>>

UnfollowTopic(topic) ==
    /\ Becomes(unfollow_topic(Self, topic))
    /\ last' = Call("unfollow_topic", topic, topic \in followed_topics)
    /\ UNCHANGED <<session_viewed, recVars, now, calls>>

MuteTopic(topic) ==
    /\ Becomes(mute_topic(Self, topic))
    /\ last' = Call("mute_topic", topic, topic \in followed_topics)
    /\ UNCHANGED <<session_viewed, recVars, now, calls>>

TrackArticleView(article_id) ==
    /\ Becomes(track_article_view(Self, article_id))
    /\ last' = Call("track_article_view", article_id, article_id \in viewed_articles)
    /\ UNCHANGED <<session_viewed, recVars, now, calls>>

UpdatePreferences(new_prefs) ==
    /\ Becomes(update_preferences(Self, new_prefs))
    /\ last' = Call("update_preferences", new_prefs, preferences)
    /\ UNCHANGED <<session_viewed, recVars, now, calls>>

\* What a call finds about the first tag of an article.
FirstTagStatus(article) ==
    IF ~("tags" \in DOMAIN article /\ Len(article.tags) > 0) THEN "no tag"
    ELSE IF article.tags[1] \in muted_topics THEN "muted"
    ELSE IF article.tags[1] \in followed_topics THEN "followed"
    ELSE "new"

UpdateUserPreferences(article) ==
    /\ Becomes(update_user_preferences(article, Self))
    /\ last' = Call("update_user_preferences", article, FirstTagStatus(article))
    /\ UNCHANGED <<session_viewed, recVars, now, calls>>

\* show_home, for an article the session has not opened yet: the view is
\* tracked, then the recommender is told of the interaction.
show_home_open(article, self) ==
    update_user_preferences(article, track_article_view(self, article.id))

ShowHomeOpen(article) ==
    /\ article.id \notin session_viewed
    /\ session_viewed' = session_viewed \cup {article.id}
    /\ Becomes(show_home_open(article, Self))
    /\ last' = Call("show_home_open", article, FirstTagStatus(article))
    /\ UNCHANGED <<recVars, now, calls>>

\* show_recommendations, for an article the session has not opened yet: the
\* view is tracked and nothing else.
ShowRecommendationsOpen(article) ==
    /\ article.id \notin session_viewed
    /\ session_viewed' = session_viewed \cup {article.id}
    /\ Becomes(track_article_view(Self, article.id))
    /\ last' = Call("show_recommendations_open", article, article.id \in viewed_articles)
    /\ UNCHANGED <<recVars, now, calls>>

\* A new session: session_state is empty and UserProfile() is built from the
\* file.
NewSession ==
    LET loaded == UserProfile_init(disk)
    IN  /\ Becomes(loaded.self)
        /\ session_viewed' = {}
        /\ last' = Call("__init__", disk.kind, loaded.raised)
        /\ UNCHANGED <<recVars, now, calls>>

\* An hour passes.
Tick ==
    /\ now < MaxClock
    /\ now' = now + 1
    /\ last' = Call("tick", now, now)
    /\ UNCHANGED <<userVars, disk, session_viewed, recVars, calls>>

GetRecentlyViewed(n) ==
    /\ last' = Call("get_recently_viewed", n, get_recently_viewed(reading_history, n))
    /\ UNCHANGED <<userVars, disk, session_viewed, recVars, now, calls>>

\* The objects of a first run: no file, a fresh UserProfile and NewsRecommender.
FreshObjects ==
    /\ preferences = DefaultPreferences
    /\ viewed_articles = {}
    /\ reading_history = <<>>
    /\ followed_topics = {}
    /\ muted_topics = {}
    /\ disk = [kind |-> "missing"]
    /\ session_viewed = {}
    /\ article_vectors = None
    /\ article_ids = <<>>
    /\ last_trained = None
    /\ now = 0
    /\ calls = <<>>

FirstRun ==
    /\ FreshObjects
    /\ last = [op |-> "start", arg |-> 0, res |-> 0, rep |-> FALSE]

(***************************************************************************)
(* SpecUser: the topic and view operations, from the UI and directly       *)
(***************************************************************************)
PreferenceUpdates ==
    {[sources |-> <<BBC>>], [sources |-> <<>>, theme |-> <<"d","a","r","k">>]}

NextUser ==
    \/ \E topic \in Topics : FollowTopic(topic)
    \/ \E topic \in Topics : UnfollowTopic(topic)
    \/ \E topic \in Topics : MuteTopic(topic)
    \/ \E a \in Corpus : TrackArticleView(a.id)
    \/ \E a \in Corpus \cup {Article4} : UpdateUserPreferences(a)
    \/ \E a \in Corpus : ShowHomeOpen(a)
    \/ \E a \in Corpus : ShowRecommendationsOpen(a)
    \/ \E new_prefs \in PreferenceUpdates : UpdatePreferences(new_prefs)
    \/ NewSession

SpecUser == FirstRun /\ [][NextUser]_vars

\* C1: no topic is in both followed_topics and muted_topics, in every state
\* reachable from the default state by follow_topic, unfollow_topic,
\* mute_topic, track_article_view and update_user_preferences.
Thm_C1_MutualExclusion == followed_topics \cap muted_topics = {}

\* C1's case: a muted topic has just been followed.
Wit_C1_FollowedAMutedTopic ==
    /\ last.op = "follow_topic"
    /\ last.res
    /\ last.arg \in followed_topics
    /\ muted_topics # {}

\* C7 as stated: after update_user_preferences(article, user_state) the
\* article's id is in viewed_articles, a first tag that was neither followed
\* nor muted is followed, and a first tag that was muted stays muted and is
\* not followed.
Cex_C7_UpdateMarksViewed ==
    [][last'.op = "update_user_preferences" =>
          /\ last'.arg.id \in viewed_articles'
          /\ (last'.res = "new" => last'.arg.tags[1] \in followed_topics')
          /\ (last'.res = "muted" => /\ last'.arg.tags[1] \in muted_topics'
                                     /\ last'.arg.tags[1] \notin followed_topics')]_vars

\* C7 as amended: update_user_preferences leaves viewed_articles as it was; it
\* is the UI's step in show_home (track_article_view, then
\* update_user_preferences) after which the article's id is in
\* viewed_articles.  After either, a first tag that was neither followed nor
\* muted before is followed, and a first tag that was muted stays muted and is
\* not followed.
Thm_C7_InteractionFollowsFirstTag ==
    [][/\ last'.op = "update_user_preferences" =>
              /\ viewed_articles' = viewed_articles
              /\ reading_history' = reading_history
       /\ last'.op = "show_home_open" => last'.arg.id \in viewed_articles'
       /\ last'.op \in {"update_user_preferences", "show_home_open"} =>
              /\ (last'.res = "new" => last'.arg.tags[1] \in followed_topics')
              /\ (last'.res = "muted" =>
                      /\ last'.arg.tags[1] \in muted_topics'
                      /\ last'.arg.tags[1] \notin followed_topics')]_vars

\* C7's case: an interaction with an article whose first tag is muted, and one
\* whose first tag was new, have both happened.
Wit_C7_MutedFirstTagKept ==
    /\ last.op = "show_home_open"
    /\ last.res = "muted"
    /\ last.arg.id \in viewed_articles
    /\ last.arg.tags[1] \in muted_topics
    /\ followed_topics # {}

(***************************************************************************)
(* SpecCap: views of more ids than the history holds                       *)
(***************************************************************************)
\* Calls of track_article_view in one run of SpecCap.
MaxCalls == 6

TrackLogged(article_id) ==
    /\ Len(calls) < MaxCalls
    /\ Becomes(track_article_view(Self, article_id))
    /\ calls' = Append(calls, article_id)
    /\ last' = Call("track_article_view", article_id, article_id \in viewed_articles)
    /\ UNCHANGED <<session_viewed, recVars, now>>

NextCap ==
    \/ \E article_id \in ArticleIds : TrackLogged(article_id)
    \/ NewSession

SpecCap == FirstRun /\ [][NextCap]_vars

\* The distinct ids of a sequence of calls, each at its first call.
RECURSIVE FirstViews(_)
FirstViews(s) ==
    IF s = <<>> THEN <<>>
    ELSE LET before == FirstViews(SubSeq(s, 1, Len(s) - 1))
             x == s[Len(s)]
         IN  IF x \in Range(before) THEN before ELSE Append(before, x)

HistoryIds == [i \in 1..Len(reading_history) |-> reading_history[i].article_id]

\* C3: reading_history never holds more than the cap, and once more than cap
\* distinct ids have been viewed it holds exactly cap entries: the cap ids
\* viewed last, in the order of their (first) views.
Thm_C3_HistoryCap ==
    /\ Len(reading_history) <= HistoryCap
    /\ Len(FirstViews(calls)) > HistoryCap =>
           /\ Len(reading_history) = HistoryCap
           /\ HistoryIds = PySliceFrom(FirstViews(calls), -HistoryCap)

\* C3's case: more ids than the cap have been viewed, one of them twice.
Wit_C3_OverTheCap ==
    /\ Len(FirstViews(calls)) > HistoryCap
    /\ Len(calls) > Len(FirstViews(calls))
    /\ Len(reading_history) = HistoryCap
    /\ HistoryIds[1] # calls[1]

(***************************************************************************)
(* SpecHistory: views over time, and the recently viewed ids               *)
(***************************************************************************)
NextHistory ==
    \/ \E article_id \in ArticleIds : TrackArticleView(article_id)
    \/ \E n \in 0..MaxN : GetRecentlyViewed(n)
    \/ Tick

SpecHistory == FirstRun /\ [][NextHistory]_vars

\* C2: a second track_article_view(id) in a row changes nothing: not
\* viewed_articles, not reading_history, and so not the saved record.
Thm_C2_TrackIdempotent ==
    [][(last'.op = "track_article_view" /\ last'.rep) =>
          UNCHANGED <<userVars, disk>>]_vars

\* C2's case: the same id has been tracked twice in a row, an hour apart.
Wit_C2_TrackedTwice ==
    /\ last.op = "track_article_view"
    /\ last.rep
    /\ last.arg \in viewed_articles
    /\ \E i \in 1..Len(reading_history) :
           /\ reading_history[i].article_id = last.arg
           /\ reading_history[i].timestamp < now

\* C9 as stated: for every n >= 0, get_recently_viewed(n) returns exactly
\* min(n, length of reading_history) ids, the ids of the last entries of
\* reading_history, most recent first.
Cex_C9_RecentlyViewed ==
    last.op = "get_recently_viewed" =>
        /\ Len(last.res) = Min(last.arg, Len(reading_history))
        /\ \A i \in 1..Len(last.res) :
               last.res[i] = reading_history[Len(reading_history) + 1 - i].article_id

(***************************************************************************)
(* SpecLoad: a session that starts from any file                           *)
(***************************************************************************)
Absent == [t |-> "absent"]
JsonNumber == [t |-> "number", v |-> 7]

StoredPreferences ==
    {Absent, [t |-> "object", v |-> DefaultPreferences],
     [t |-> "object", v |-> [DefaultPreferences EXCEPT !.sources = <<BBC>>]]}
StoredViewed == {Absent, [t |-> "array", v |-> <<1>>], JsonNumber}
StoredHistory ==
    {Absent, [t |-> "array", v |-> <<[article_id |-> 1, timestamp |-> 0]>>]}
StoredFollowed == {Absent, [t |-> "array", v |-> <<AI>>], JsonNumber}
StoredMuted == {Absent, [t |-> "array", v |-> <<ML>>], JsonNumber}

\* A JSON object with the keys that are present.
JsonObject(fields) ==
    [t |-> "object",
     v |-> [k \in {key \in DOMAIN fields : fields[key] # Absent} |-> fields[k]]]

\* The files a session can find: none, one that does not parse, one that holds
\* a JSON array, and objects whose five fields are each absent, well-formed or
\* a number.
DiskFiles ==
    {[kind |-> "missing"], [kind |-> "garbled"],
     [kind |-> "json", data |-> [t |-> "array", v |-> <<>>]]}
    \cup
    {[kind |-> "json", data |-> JsonObject(fields)] :
        fields \in [preferences : StoredPreferences, viewed_articles : StoredViewed,
                    reading_history : StoredHistory, followed_topics : StoredFollowed,
                    muted_topics : StoredMuted]}

InitLoad ==
    /\ preferences = DefaultPreferences
    /\ viewed_articles = {}
    /\ reading_history = <<>>
    /\ followed_topics = {}
    /\ muted_topics = {}
    /\ disk \in DiskFiles
    /\ session_viewed = {}
    /\ article_vectors = None
    /\ article_ids = <<>>
    /\ last_trained = None
    /\ now = 0
    /\ calls = <<>>
    /\ last = [op |-> "start", arg |-> 0, res |-> 0, rep |-> FALSE]

NextLoad == NewSession

SpecLoad == InitLoad /\ [][NextLoad]_vars

\* C8 as stated: when the load fails at any point, the user state is the
\* default state in all five fields.
Cex_C8_FailedLoadIsDefault ==
    (last.op = "__init__" /\ last.res) =>
        /\ preferences = DefaultPreferences
        /\ viewed_articles = {}
        /\ reading_history = <<>>
        /\ followed_topics = {}
        /\ muted_topics = {}

(***************************************************************************)
(* SpecRec: recommendations for a user who reads, follows and mutes        *)
(***************************************************************************)
\* The article collections a call is given: the lists of distinct articles.
ArticleLists ==
    UNION {{lst \in [1..k -> Corpus] : \A i, j \in 1..k : i # j => lst[i] # lst[j]} :
              k \in 0..Cardinality(Corpus)}

GetRecommendations(articles, n_recommendations) ==
    \E o \in get_recommendations(articles, Self, n_recommendations, Recommender) :
        /\ article_vectors' = o.rec.article_vectors
        /\ article_ids' = o.rec.article_ids
        /\ last_trained' = o.rec.last_trained
        /\ last' = Call("get_recommendations",
                        [articles |-> articles, n |-> n_recommendations],
                        [path |-> o.path, out |-> o.out, candidates |-> o.candidates,
                         avg_similarities |-> o.avg_similarities,
                         top_indices |-> o.top_indices])
        /\ UNCHANGED <<userVars, disk, session_viewed, now, calls>>

\* The caller takes the list returned; the next operation starts after that.
Return ==
    /\ last.op \in {"get_recommendations", "_filter_by_preferences"}
    /\ last' = [op |-> "returned", arg |-> 0, res |-> 0, rep |-> FALSE]
    /\ UNCHANGED <<userVars, disk, session_viewed, recVars, now, calls>>

NextRec ==
    \/ /\ last.op # "get_recommendations"
       /\ \/ \E a \in Corpus : ShowHomeOpen(a)
          \/ \E topic \in Topics : MuteTopic(topic)
          \/ \E new_prefs \in PreferenceUpdates : UpdatePreferences(new_prefs)
          \/ \E articles \in ArticleLists, n \in 0..MaxN :
                 GetRecommendations(articles, n)
    \/ Return

SpecRec == FirstRun /\ [][NextRec]_vars

\* SpecStale: one recommender over time, called with the default n.
NextStale ==
    \/ /\ last.op # "get_recommendations"
       /\ \/ \E a \in Corpus : ShowHomeOpen(a)
          \/ Tick
          \/ \E articles \in ArticleLists : GetRecommendations(articles, DefaultN)
    \/ Return

SpecStale == FirstRun /\ [][NextStale]_vars

RecCall == last.op = "get_recommendations"

\* C4 as stated: for every n, get_recommendations returns at most n items and
\* returns an empty list only when articles is empty.
Cex_C4_RecommendationBound ==
    RecCall =>
        /\ Len(last.res.out) <= last.arg.n
        /\ (last.res.out = <<>> => last.arg.articles = <<>>)

\* C4 as amended: for every n >= 0 get_recommendations returns at most n
\* items, and for n >= 1 it returns an empty list only when articles is empty,
\* on the content-based path and on the popularity fallback path.
Thm_C4_RecommendationBound ==
    RecCall =>
        /\ Len(last.res.out) <= last.arg.n
        /\ (last.arg.n >= 1 /\ last.res.out = <<>> => last.arg.articles = <<>>)

\* C4's case: the content-based path has cut its ranking down to n.
Wit_C4_ContentPathCut ==
    /\ RecCall
    /\ last.res.path = "content"
    /\ last.arg.n >= 1
    /\ Len(last.res.out) = last.arg.n
    /\ Len(last.arg.articles) > last.arg.n

\* The seed articles of the last call: the articles given whose id is among
\* the recently viewed.
SeedsOfCall ==
    {a \in Range(last.arg.articles) :
        a.id \in Range(get_recently_viewed(reading_history,
                                           Min(RecentSeeds, Len(reading_history))))}

\* The sum, over the seeds of the last call, of the cosine of an article's own
\* vector and the seed's; the mean is this sum over the number of seeds.
OwnScore(a) ==
    LET seeds == list(SeedsOfCall)
    IN  sum_seq([i \in 1..Len(seeds) |->
                    cosine_similarity(vectorize(_get_article_features(a)),
                                      vectorize(_get_article_features(seeds[i])))])

\* C5 as stated: a list returned through the content-based path is in
\* non-increasing order of mean similarity, each article's score being the
\* mean over the seeds of the similarity of its own vector and the seed's.
Cex_C5_RankedBySimilarity ==
    (RecCall /\ last.res.path = "content") =>
        \A i, j \in 1..Len(last.res.out) :
            i < j => OwnScore(last.res.out[i]) >= OwnScore(last.res.out[j])

\* C6 as stated: whenever a call ranks by similarity, the feature space it
\* reads was built from the article collection passed to that call, row for
\* row.
Cex_C6_FeatureSpaceOfTheCall ==
    (RecCall /\ last.res.path = "content") =>
        article_vectors = fit_transform(last.arg.articles)

\* C12 as stated: on the content-based path, of two returned candidates with
\* equal mean similarity the one earlier in the candidate list comes first in
\* the result.
Cex_C12_StableTieBreak ==
    (RecCall /\ last.res.path = "content") =>
        \A i, j \in 1..Len(last.res.top_indices) :
            (/\ i < j
             /\ last.res.avg_similarities[last.res.top_indices[i]]
                    = last.res.avg_similarities[last.res.top_indices[j]])
                => last.res.top_indices[i] < last.res.top_indices[j]

\* C13: for a collection with unique ids, get_recommendations returns no
\* article twice, and when some article of the collection is unviewed no
\* returned article has its id in viewed_articles (viewed articles are
\* returned only when every article of the collection is viewed), on the
\* content-based and the fallback path, with and without backfill.
Thm_C13_UnviewedOnly ==
    RecCall =>
        LET out == last.res.out
            articles == last.arg.articles
        IN  /\ \A i, j \in 1..Len(out) : i # j => out[i] # out[j]
            /\ (\E i \in 1..Len(articles) : articles[i].id \notin viewed_articles)
                   => \A k \in 1..Len(out) : out[k].id \notin viewed_articles

\* C13's case: the collection holds a viewed article, the filter kept fewer
\* candidates than n and the rest were backfilled, and the content-based path
\* returned every candidate.
Wit_C13_BackfilledContentPath ==
    /\ RecCall
    /\ last.res.path = "content"
    /\ \E i \in 1..Len(last.arg.articles) : last.arg.articles[i].id \in viewed_articles
    /\ LET kept == _filter_by_preferences(last.res.candidates, Self)
       IN  kept # <<>> /\ Len(kept) < Len(last.res.candidates)
    /\ Len(last.res.out) = Len(last.res.candidates)

(***************************************************************************)
(* SpecPopular: the popularity ranking of any list                         *)
(***************************************************************************)
\* An article with the given id; views -1 and published_at 0 leave the key out.
KeyedArticle(id, views, published_at) ==
    IF views = -1 /\ published_at = 0 THEN [id |-> id]
    ELSE IF views = -1 THEN [id |-> id, published_at |-> published_at]
    ELSE IF published_at = 0 THEN [id |-> id, views |-> views]
    ELSE [id |-> id, views |-> views, published_at |-> published_at]

\* The lists of up to MaxList articles with ids 1, 2, ... and any keys.
KeyedLists ==
    UNION {{[i \in 1..k |-> KeyedArticle(i, keys[i][1], keys[i][2])] :
               keys \in [1..k -> (-1..1) \X (0..2)]} : k \in 0..MaxList}

\* The ranker is handed one list and one n.
InitPopular ==
    /\ FreshObjects
    /\ \E articles \in KeyedLists, n \in 0..MaxN :
           last = [op |-> "input", arg |-> [articles |-> articles, n |-> n],
                   res |-> 0, rep |-> FALSE]

GetPopularArticles ==
    /\ last.op = "input"
    /\ last' = [last EXCEPT !.op = "_get_popular_articles",
                            !.res = _get_popular_articles(last.arg.articles, last.arg.n)]
    /\ UNCHANGED <<userVars, disk, session_viewed, recVars, now, calls>>

NextPopular == GetPopularArticles

SpecPopular == InitPopular /\ [][NextPopular]_vars

ViewsOf(a) == IF "views" \in DOMAIN a THEN a.views ELSE 0
PublishedOf(a) == IF "published_at" \in DOMAIN a THEN a.published_at ELSE 0
RanksBefore(a, b) ==
    \/ ViewsOf(a) > ViewsOf(b)
    \/ ViewsOf(a) = ViewsOf(b) /\ PublishedOf(a) > PublishedOf(b)
SameKey(a, b) == ViewsOf(a) = ViewsOf(b) /\ PublishedOf(a) = PublishedOf(b)

\* C10: _get_popular_articles returns the first min(n, length) articles of the
\* list sorted by (views, published_at) descending, missing views counting as
\* 0, articles with equal keys in their input order.
Thm_C10_PopularOrder ==
    last.op = "_get_popular_articles" =>
        LET input == last.arg.articles
            len == Len(input)
        IN  \E p \in [1..len -> 1..len] :
                /\ \A i, j \in 1..len : i # j => p[i] # p[j]
                /\ \A i, j \in 1..len : i < j =>
                       \/ RanksBefore(input[p[i]], input[p[j]])
                       \/ SameKey(input[p[i]], input[p[j]]) /\ p[i] < p[j]
                /\ last.res = [i \in 1..Min(last.arg.n, len) |-> input[p[i]]]

\* C10's case: two articles with equal keys, one of them without views, are
\* both returned, behind an article that came after them in the input.
Wit_C10_TiesKeepOrder ==
    /\ last.op = "_get_popular_articles"
    /\ Len(last.res) = MaxList
    /\ ~("views" \in DOMAIN last.res[2])
    /\ SameKey(last.res[2], last.res[3])
    /\ last.res[2] # last.res[3]
    /\ last.res[1].id > last.res[3].id

(***************************************************************************)
(* SpecFilter: the preference filter on any list, for any topics followed  *)
(* and muted and any preferences                                           *)
(***************************************************************************)
\* The lists of up to MaxList articles, an article possibly more than once.
FilterLists == UNION {[1..k -> Corpus \cup {Article4}] : k \in 0..MaxList}

\* Preferences that widen the reading time or name another source.
FilterPreferences ==
    PreferenceUpdates \cup {[max_reading_time |-> DefaultMaxTime], [sources |-> <<CNN>>]}

FilterByPreferences(articles) ==
    /\ last' = Call("_filter_by_preferences", articles,
                    _filter_by_preferences(articles, Self))
    /\ UNCHANGED <<userVars, disk, session_viewed, recVars, now, calls>>

NextFilter ==
    \/ /\ last.op # "_filter_by_preferences"
       /\ \/ \E topic \in KnownTopics : FollowTopic(topic)
          \/ \E topic \in KnownTopics : MuteTopic(topic)
          \/ \E new_prefs \in FilterPreferences : UpdatePreferences(new_prefs)
          \/ \E articles \in FilterLists : FilterByPreferences(articles)
    \/ Return

SpecFilter == FirstRun /\ [][NextFilter]_vars

\* out takes its elements from inp at increasing positions.
IsSubsequence(out, inp) ==
    \E p \in [1..Len(out) -> 1..Len(inp)] :
        /\ \A i, j \in 1..Len(out) : i < j => p[i] < p[j]
        /\ \A i \in 1..Len(out) : out[i] = inp[p[i]]

\* C11: the output of _filter_by_preferences is a subsequence of its input
\* (every output article is an input article, no input position is used
\* twice, the survivors are in input order), and the call changes neither the
\* user state nor its saved record.
Thm_C11_FilterSubsequence ==
    [][last'.op = "_filter_by_preferences" =>
          /\ IsSubsequence(last'.res, last'.arg)
          /\ UNCHANGED <<userVars, disk>>]_vars

\* C11's case: with a topic muted, the filter has dropped one of three
\* articles and kept two different ones.
Wit_C11_OneOfThreeDropped ==
    /\ last.op = "_filter_by_preferences"
    /\ muted_topics # {}
    /\ Len(last.arg) = 3
    /\ Len(last.res) = 2
    /\ last.res[1] # last.res[2]

====
